---- MODULE Spec2Model ----
(***************************************************************************)
(* The customer/order service of src/main.py: six FastAPI handlers over    *)
(* one MongoDB collection.  Every handler that changes orders reads the    *)
(* whole customer document (find_one), changes its private copy of the     *)
(* orders list and writes the whole list back (update_one $set).  The two  *)
(* awaits are the only suspension points, so each such handler is two      *)
(* atomic steps: the read with everything up to the write, and the write.  *)
(***************************************************************************)
EXTENDS Integers, Sequences, FiniteSets, TLC

\* Requests the service receives in one run.
MaxRequests == 4

\* Concurrent requests the I/O runtime has in flight.
Reqs == {"r1", "r2"}

\* The ObjectIds the driver assigns to inserted documents, in order.
IdPool == <<"id1", "id2">>

WellFormedIds == {IdPool[i] : i \in 1..Len(IdPool)}

\* A path parameter that is not a 24-digit hexadecimal string.
MalformedIds == {"xyz"}

RequestIds == WellFormedIds \cup MalformedIds

\* Python values: None, a list, and a request field that was left out.
PyNone == [kind |-> "None"]

Omitted == [kind |-> "omitted"]

PyList(s) == [kind |-> "list", items |-> s]

IsList(v) == v.kind = "list"

\* Python truthiness of an Optional[List]: None and [] are falsy.
Truthy(v) == IsList(v) /\ v.items # <<>>

\* class Order
Order(c, q, p) == [category |-> c, quantity |-> q, price |-> p]

\* Orders that request bodies carry.
OrderInputs == {Order("bricks", 1, 2), Order("sand", 3, 4)}

\* new_quantity and new_price of a patch request.
PatchInputs == {[new_quantity |-> 5, new_price |-> 6]}

\* order_index path parameter: in range, one past the end, negative within
\* the list, and negative beyond it.
Indexes == (0 - 3)..2

\* Bodies of a create request: orders left out, null, empty or given.
CustomerInputs ==
  {[name |-> "Alice", email |-> "a@x.com", phone |-> "555",
    address |-> "1 Main St", orders |-> o] :
     o \in {Omitted, PyNone, PyList(<<>>), PyList(<<Order("bricks", 1, 2)>>)}}

\* class Customer: orders defaults to [] when the body leaves it out.
Customer(body) ==
  [name |-> body.name, email |-> body.email, phone |-> body.phone,
   address |-> body.address,
   orders |-> IF body.orders = Omitted THEN PyList(<<>>) ELSE body.orders]

\* order.dict()
OrderDict(o) == [category |-> o.category, quantity |-> o.quantity, price |-> o.price]

\* customer_helper
customer_helper(c) ==
  [id |-> c._id, name |-> c.name, email |-> c.email, phone |-> c.phone,
   address |-> c.address, orders |-> c.orders]

\* ObjectId(customer_id) raises InvalidId on a malformed string.
ObjectIdIsValid(s) == s \in WellFormedIds

VARIABLES
  db,        \* customers_collection: ObjectId -> document
  pc,        \* per request: "idle", "found" (between find_one and update_one), "done"
  req,       \* per request: the operation and its parameters
  customer,  \* per request: the handler's local copy of the document
  read,      \* per request: the orders value find_one returned
  resp,      \* per request: the HTTP response
  dirty,     \* per request: another request wrote the same document since the read
  received   \* number of requests received so far

vars == <<db, pc, req, customer, read, resp, dirty, received>>

NoReq == [op |-> "none"]

NoResp == [status |-> 0]

Init ==
  /\ db = <<>>
  /\ pc = [r \in Reqs |-> "idle"]
  /\ req = [r \in Reqs |-> NoReq]
  /\ customer = [r \in Reqs |-> PyNone]
  /\ read = [r \in Reqs |-> PyNone]
  /\ resp = [r \in Reqs |-> NoResp]
  /\ dirty = [r \in Reqs |-> FALSE]
  /\ received = 0

\* find_one({"_id": ...}): the document, or None.
FindOne(coll, cid) == IF cid \in DOMAIN coll THEN coll[cid] ELSE PyNone

\* Faulty variant: the filter matches no document, so nothing is written.
UpdateOneNoMatch(coll, cid, orders) == coll

\* Faulty variant: the filter matches every document.
UpdateMany(coll, cid, orders) ==
  [c \in DOMAIN coll |-> [coll[c] EXCEPT !.orders = orders]]

\* update_one({"_id": ...}, {"$set": {"orders": ...}}): only the orders field
\* of the one matching document; no match, no change.
UpdateOne(coll, cid, orders) ==
  IF cid \in DOMAIN coll THEN [coll EXCEPT ![cid].orders = orders] ELSE coll

\* The runtime hands a new request to a free handler.
Receive(r) ==
  /\ pc[r] = "idle"
  /\ received < MaxRequests
  /\ received' = received + 1

\* The handler ends without reaching update_one.
Finish(r, request, seen, response) ==
  /\ pc' = [pc EXCEPT ![r] = "done"]
  /\ req' = [req EXCEPT ![r] = request]
  /\ customer' = [customer EXCEPT ![r] = PyNone]
  /\ read' = [read EXCEPT ![r] = seen]
  /\ resp' = [resp EXCEPT ![r] = response]
  /\ dirty' = [dirty EXCEPT ![r] = FALSE]

HTTPException(code, detail) == [status |-> code, detail |-> detail]

\* An exception no handler catches: 500 Internal Server Error.
Unhandled(what) == [status |-> 500, detail |-> what]

\* Faulty variant: the orders of the body are stored as given, None included.
OrdersAsGiven(orders) == orders

\* customer.orders if customer.orders else []
OrdersOrEmpty(orders) == IF Truthy(orders) THEN orders ELSE PyList(<<>>)

\* insert_one(new_customer): the document is stored under a fresh _id.
InsertOne(coll, id, doc) ==
  coll @@ (id :> [_id |-> id, name |-> doc.name, email |-> doc.email,
                  phone |-> doc.phone, address |-> doc.address,
                  orders |-> doc.orders])

\* POST /customers/
add_customer(r, body) ==
  /\ Receive(r)
  /\ Cardinality(DOMAIN db) < Len(IdPool)
  /\ LET c == Customer(body)
         new_customer ==
           [name |-> c.name, email |-> c.email, phone |-> c.phone,
            address |-> c.address, orders |-> OrdersOrEmpty(c.orders)]
         id == IdPool[Cardinality(DOMAIN db) + 1]
     IN \* A non-empty list holds Order model objects; the driver's BSON
        \* encoder either rejects them or stores them as sub-documents.
        \E encoded \in BOOLEAN :
          /\ (~Truthy(new_customer.orders)) => encoded
          /\ IF encoded
               THEN /\ db' = InsertOne(db, id, new_customer)
                    /\ Finish(r, [op |-> "add", body |-> body], PyNone,
                              [status |-> 200,
                               body |-> customer_helper(InsertOne(db, id, new_customer)[id])])
               ELSE /\ db' = db
                    /\ Finish(r, [op |-> "add", body |-> body], PyNone,
                              Unhandled("InvalidDocument"))

\* The handler suspends in update_one with its changed copy of the document.
Await(r, request, c, orders) ==
  /\ pc' = [pc EXCEPT ![r] = "found"]
  /\ req' = [req EXCEPT ![r] = request]
  /\ customer' = [customer EXCEPT ![r] = [c EXCEPT !.orders = orders]]
  /\ read' = [read EXCEPT ![r] = c.orders]
  /\ dirty' = [dirty EXCEPT ![r] = FALSE]
  /\ UNCHANGED resp

\* await update_one(...) and the return statement after it.
Update(r, response) ==
  /\ pc[r] = "found"
  /\ db' = UpdateOne(db, req[r].cid, customer[r].orders)
  /\ pc' = [pc EXCEPT ![r] = "done"]
  /\ customer' = [customer EXCEPT ![r] = PyNone]
  /\ resp' = [resp EXCEPT ![r] = response]
  /\ dirty' = [q \in Reqs |->
                 IF q # r /\ pc[q] = "found" /\ req[q].cid = req[r].cid
                   THEN TRUE ELSE dirty[q]]
  /\ UNCHANGED <<req, read, received>>

\* Faulty variant: the new order is put in front of the list.
BookPrepend(orders, order) == <<OrderDict(order)>> \o orders

\* customer["orders"].append(new_order)
BookMutate(orders, order) == Append(orders, OrderDict(order))

\* Faulty variant: the bound check is off by one.
IndexBeyondLength(index, orders) == index > Len(orders)

\* Faulty variant: the bound check also rejects negative indices.
IndexOutsideBothEnds(index, orders) == index >= Len(orders) \/ index < 0

\* if order_index >= len(customer["orders"])
IndexOutOfRange(index, orders) == index >= Len(orders)

\* Python list indexing: -n..n-1 are valid, negative ones count from the end.
PyIndexValid(index, n) == (0 - n) <= index /\ index < n

\* The 1-based position a valid Python index denotes.
PyPos(index, n) == IF index < 0 THEN n + index + 1 ELSE index + 1

\* Faulty variant: the order is inserted at the index instead of replacing the element.
EditInsert(orders, index, order) ==
  LET p == PyPos(index, Len(orders))
  IN SubSeq(orders, 1, p - 1) \o <<OrderDict(order)>> \o SubSeq(orders, p, Len(orders))

\* customer["orders"][order_index] = order.dict()
EditMutate(orders, index, order) ==
  [orders EXCEPT ![PyPos(index, Len(orders))] = OrderDict(order)]

\* Faulty variant: the last element is removed whatever the index.
DeleteLast(orders, index) == SubSeq(orders, 1, Len(orders) - 1)

\* del customer["orders"][order_index]
DeleteMutate(orders, index) ==
  LET p == PyPos(index, Len(orders))
  IN SubSeq(orders, 1, p - 1) \o SubSeq(orders, p + 1, Len(orders))

\* Faulty variant: the two new values are stored in each other's field.
PatchSwapped(orders, index, new_price, new_quantity) ==
  LET p == PyPos(index, Len(orders))
  IN [orders EXCEPT ![p] = [@ EXCEPT !.quantity = new_price, !.price = new_quantity]]

\* customer["orders"][order_index]["quantity"] = new_quantity; ...["price"] = new_price
PatchMutate(orders, index, new_price, new_quantity) ==
  LET p == PyPos(index, Len(orders))
  IN [orders EXCEPT ![p] = [@ EXCEPT !.quantity = new_quantity, !.price = new_price]]

\* The statement of each handler that modifies its local list.
ChangeAt(request, orders) ==
  CASE request.op = "edit" -> EditMutate(orders, request.index, request.order)
    [] request.op = "delete" -> DeleteMutate(orders, request.index)
    [] request.op = "patch" ->
         PatchMutate(orders, request.index, request.new_price, request.new_quantity)

\* The part edit, delete and patch share: find_one, the two not-found
\* checks, then the modification of the local list.
FindIndexed(r, request) ==
  /\ Receive(r)
  /\ UNCHANGED db
  /\ IF ~ObjectIdIsValid(request.cid)
       THEN Finish(r, request, PyNone, Unhandled("InvalidId"))
       ELSE LET c == FindOne(db, request.cid) IN
         IF c = PyNone
           THEN Finish(r, request, PyNone, HTTPException(404, "Customer not found"))
         ELSE IF ~IsList(c.orders)
           THEN Finish(r, request, c.orders, Unhandled("TypeError"))
         ELSE IF IndexOutOfRange(request.index, c.orders.items)
           THEN Finish(r, request, c.orders, HTTPException(404, "Order not found"))
         ELSE IF ~PyIndexValid(request.index, Len(c.orders.items))
           THEN Finish(r, request, c.orders, Unhandled("IndexError"))
         ELSE Await(r, request, c, PyList(ChangeAt(request, c.orders.items)))

\* POST /customers/{customer_id}/order, up to the await of update_one
book_order_find(r, cid, order) ==
  /\ Receive(r)
  /\ UNCHANGED db
  /\ LET request == [op |-> "book", cid |-> cid, order |-> order] IN
       IF ~ObjectIdIsValid(cid)
         THEN Finish(r, request, PyNone, Unhandled("InvalidId"))
         ELSE LET c == FindOne(db, cid) IN
           IF c = PyNone
             THEN Finish(r, request, PyNone, HTTPException(404, "Customer not found"))
           ELSE IF ~IsList(c.orders)
             THEN Finish(r, request, c.orders, Unhandled("AttributeError"))
           ELSE Await(r, request, c, PyList(BookMutate(c.orders.items, order)))

book_order_update(r) ==
  /\ req[r].op = "book"
  /\ Update(r, [status |-> 200, message |-> "Order booked successfully",
                order |-> OrderDict(req[r].order)])

\* PUT /customers/{customer_id}/order/{order_index}
edit_order_find(r, cid, index, order) ==
  FindIndexed(r, [op |-> "edit", cid |-> cid, index |-> index, order |-> order])

edit_order_update(r) ==
  /\ req[r].op = "edit"
  /\ Update(r, [status |-> 200, message |-> "Order updated successfully",
                order |-> OrderDict(req[r].order)])

\* DELETE /customers/{customer_id}/order/{order_index}
delete_order_find(r, cid, index) ==
  FindIndexed(r, [op |-> "delete", cid |-> cid, index |-> index])

delete_order_update(r) ==
  /\ req[r].op = "delete"
  /\ Update(r, [status |-> 200, message |-> "Order deleted successfully"])

\* PATCH /customers/{customer_id}/order/{order_index}?new_price=&new_quantity=
update_order_amount_find(r, cid, index, new_price, new_quantity) ==
  FindIndexed(r, [op |-> "patch", cid |-> cid, index |-> index,
                  new_price |-> new_price, new_quantity |-> new_quantity])

update_order_amount_update(r) ==
  /\ req[r].op = "patch"
  /\ LET orders == customer[r].orders.items
     IN Update(r, [status |-> 200, message |-> "Order updated successfully",
                   order |-> orders[PyPos(req[r].index, Len(orders))]])

\* The response leaves the server; the runtime takes the next request.
Respond(r) ==
  /\ pc[r] = "done"
  /\ pc' = [pc EXCEPT ![r] = "idle"]
  /\ req' = [req EXCEPT ![r] = NoReq]
  /\ customer' = [customer EXCEPT ![r] = PyNone]
  /\ read' = [read EXCEPT ![r] = PyNone]
  /\ resp' = [resp EXCEPT ![r] = NoResp]
  /\ dirty' = [dirty EXCEPT ![r] = FALSE]
  /\ UNCHANGED <<db, received>>

Next ==
  \/ \E r \in Reqs, body \in CustomerInputs : add_customer(r, body)
  \/ \E r \in Reqs, cid \in RequestIds, order \in OrderInputs :
       book_order_find(r, cid, order)
  \/ \E r \in Reqs : book_order_update(r)
  \/ \E r \in Reqs, cid \in RequestIds, index \in Indexes, order \in OrderInputs :
       edit_order_find(r, cid, index, order)
  \/ \E r \in Reqs : edit_order_update(r)
  \/ \E r \in Reqs, cid \in RequestIds, index \in Indexes :
       delete_order_find(r, cid, index)
  \/ \E r \in Reqs : delete_order_update(r)
  \/ \E r \in Reqs, cid \in RequestIds, index \in Indexes, p \in PatchInputs :
       update_order_amount_find(r, cid, index, p.new_price, p.new_quantity)
  \/ \E r \in Reqs : update_order_amount_update(r)
  \/ \E r \in Reqs : Respond(r)

Spec == Init /\ [][Next]_vars

(***************************************************************************)
(* Properties                                                              *)
(***************************************************************************)

\* Request r performs its update_one in this step.
Writes(r) == pc[r] = "found" /\ pc'[r] = "done"

\* Request r is received and runs up to its first suspension in this step.
Starts(r) == pc[r] = "idle" /\ pc'[r] # "idle"

\* The stored order sequence of customer c.
Stored(c) == db[c].orders.items

IndexedOps == {"edit", "delete", "patch"}

\* s with its k-th element (1-based) replaced by x, and with it removed.
ReplaceAt(s, k, x) == [j \in 1..Len(s) |-> IF j = k THEN x ELSE s[j]]

RemoveAt(s, k) == [j \in 1..(Len(s) - 1) |-> IF j < k THEN s[j] ELSE s[j + 1]]

\* What an edit, delete or patch request makes of s at 1-based position k.
Expected(request, s, k) ==
  CASE request.op = "edit" -> ReplaceAt(s, k, request.order)
    [] request.op = "delete" -> RemoveAt(s, k)
    [] request.op = "patch" ->
         ReplaceAt(s, k, [category |-> s[k].category,
                          quantity |-> request.new_quantity,
                          price |-> request.new_price])

\* C1: a book-order write on an existing customer, with no other write to that
\* customer since the request read it, leaves the stored sequence equal to the
\* previous one with the new order appended: one longer, every prior order in
\* its place.
C1_BookAppendsAtEnd ==
  [][\A r \in Reqs :
       (Writes(r) /\ req[r].op = "book" /\ ~dirty[r]) =>
         LET before == Stored(req[r].cid)
             after == db'[req[r].cid].orders.items
         IN /\ Len(after) = Len(before) + 1
            /\ \A j \in 1..Len(before) : after[j] = before[j]
            /\ after[Len(after)] = req[r].order
            /\ resp'[r].status = 200]_vars

C1_Witness ==
  \E r \in Reqs :
    /\ pc[r] = "done" /\ req[r].op = "book" /\ resp[r].status = 200 /\ ~dirty[r]
    /\ read[r].items # <<>>
    /\ read[r].items[1] # req[r].order
    /\ Stored(req[r].cid) = Append(read[r].items, req[r].order)

\* C2: the last write wins: a book-order write stores the sequence the request
\* read with its own order appended, whatever was stored in between; so two
\* book requests that read the same sequence both succeed and only one of the
\* two orders is kept (the state C2_LostUpdate).
C2_LastWriteWins ==
  [][\A r \in Reqs :
       (Writes(r) /\ req[r].op = "book") =>
         /\ db'[req[r].cid].orders.items = Append(read[r].items, req[r].order)
         /\ resp'[r].status = 200]_vars

C2_LostUpdate ==
  \E r1, r2 \in Reqs :
    /\ r1 # r2
    /\ pc[r1] = "done" /\ req[r1].op = "book" /\ resp[r1].status = 200
    /\ pc[r2] = "done" /\ req[r2].op = "book" /\ resp[r2].status = 200
    /\ req[r1].cid = req[r2].cid
    /\ req[r1].order # req[r2].order
    /\ read[r1] = read[r2]
    /\ dirty[r2]
    /\ Len(Stored(req[r1].cid)) = Len(read[r1].items) + 1
    /\ Stored(req[r1].cid) = Append(read[r2].items, req[r2].order)
    /\ \A j \in 1..Len(Stored(req[r1].cid)) : Stored(req[r1].cid)[j] # req[r1].order

\* C3: an edit-order write at index i, 0 <= i < length, with no other write to
\* that customer since the request read it, replaces exactly the element at
\* position i; the length and every other element are unchanged.
C3_EditReplacesOne ==
  [][\A r \in Reqs :
       (Writes(r) /\ req[r].op = "edit" /\ ~dirty[r] /\ req[r].index >= 0) =>
         LET before == Stored(req[r].cid)
             after == db'[req[r].cid].orders.items
         IN /\ req[r].index < Len(before)
            /\ Len(after) = Len(before)
            /\ after[req[r].index + 1] = req[r].order
            /\ \A j \in 1..Len(before) : j # req[r].index + 1 => after[j] = before[j]
            /\ resp'[r].status = 200]_vars

C3_Witness ==
  \E r \in Reqs :
    /\ pc[r] = "done" /\ req[r].op = "edit" /\ resp[r].status = 200 /\ ~dirty[r]
    /\ req[r].index >= 0
    /\ Len(read[r].items) >= 2
    /\ read[r].items[req[r].index + 1] # req[r].order
    /\ Stored(req[r].cid) = ReplaceAt(read[r].items, req[r].index + 1, req[r].order)

\* C4: a delete-order write at index i, 0 <= i < length, with no other write to
\* that customer since the request read it, removes exactly the element at
\* position i: one shorter, elements before i unchanged, each element formerly
\* at j > i now at j-1.
C4_DeleteRemovesOne ==
  [][\A r \in Reqs :
       (Writes(r) /\ req[r].op = "delete" /\ ~dirty[r] /\ req[r].index >= 0) =>
         LET before == Stored(req[r].cid)
             after == db'[req[r].cid].orders.items
             i == req[r].index
         IN /\ i < Len(before)
            /\ Len(after) = Len(before) - 1
            /\ \A j \in 1..i : after[j] = before[j]
            /\ \A j \in (i + 2)..Len(before) : after[j - 1] = before[j]
            /\ resp'[r].status = 200]_vars

C4_Witness ==
  \E r \in Reqs :
    /\ pc[r] = "done" /\ req[r].op = "delete" /\ resp[r].status = 200 /\ ~dirty[r]
    /\ req[r].index = 0
    /\ Len(read[r].items) >= 2
    /\ read[r].items[1] # read[r].items[2]
    /\ Stored(req[r].cid) = Tail(read[r].items)

\* C5: a patch write at index i, 0 <= i < length, with no other write to that
\* customer since the request read it, sets only quantity and price of the
\* element at position i; its category, the length and every other element are
\* unchanged.
C5_PatchSetsQuantityAndPrice ==
  [][\A r \in Reqs :
       (Writes(r) /\ req[r].op = "patch" /\ ~dirty[r] /\ req[r].index >= 0) =>
         LET before == Stored(req[r].cid)
             after == db'[req[r].cid].orders.items
             k == req[r].index + 1
         IN /\ k <= Len(before)
            /\ Len(after) = Len(before)
            /\ after[k].quantity = req[r].new_quantity
            /\ after[k].price = req[r].new_price
            /\ after[k].category = before[k].category
            /\ \A j \in 1..Len(before) : j # k => after[j] = before[j]
            /\ resp'[r].status = 200]_vars

C5_Witness ==
  \E r \in Reqs :
    /\ pc[r] = "done" /\ req[r].op = "patch" /\ resp[r].status = 200 /\ ~dirty[r]
    /\ req[r].index >= 0
    /\ Len(read[r].items) >= 2
    /\ Stored(req[r].cid) = Expected(req[r], read[r].items, req[r].index + 1)
    /\ Stored(req[r].cid) # read[r].items

\* C6: an edit, delete or patch request on an existing customer whose index is
\* at or past the length of the sequence it reads ends at once with 404 "Order
\* not found"; it never reaches update_one and the collection is unchanged.
C6_IndexPastEndNotFound ==
  [][\A r \in Reqs :
       (/\ Starts(r)
        /\ req'[r].op \in IndexedOps
        /\ req'[r].cid \in DOMAIN db
        /\ req'[r].index >= Len(Stored(req'[r].cid))) =>
         /\ pc'[r] = "done"
         /\ resp'[r] = HTTPException(404, "Order not found")
         /\ db' = db]_vars

C6_Witness ==
  \E r \in Reqs :
    /\ pc[r] = "done" /\ req[r].op \in IndexedOps
    /\ IsList(read[r])
    /\ read[r].items # <<>>
    /\ req[r].index = Len(read[r].items)
    /\ resp[r].status = 404

\* C7: a book-order request for an identifier under which no customer is
\* stored ends with 404 and leaves the whole collection unchanged.
C7_BookUnknownIdNotFound ==
  [][\A r \in Reqs :
       (Starts(r) /\ req'[r].op = "book" /\ req'[r].cid \notin DOMAIN db) =>
         /\ pc'[r] = "done"
         /\ resp'[r].status = 404
         /\ db' = db]_vars

\* C8: every stored customer has an orders field that is a list, never None;
\* a create request whose orders are left out, null or empty is stored and
\* returned with orders equal to the empty list.
C8_OrdersAlwaysAList ==
  [][/\ \A c \in DOMAIN db' :
          /\ IsList(db'[c].orders)
          /\ db'[c].orders.items \in Seq([category : {"bricks", "sand"},
                                          quantity : Int, price : Int])
     /\ \A r \in Reqs :
          (/\ Starts(r)
           /\ req'[r].op = "add"
           /\ req'[r].body.orders \in {Omitted, PyNone, PyList(<<>>)}) =>
            /\ resp'[r].status = 200
            /\ resp'[r].body.orders = PyList(<<>>)
            /\ resp'[r].body.id \notin DOMAIN db
            /\ resp'[r].body.id \in DOMAIN db'
            /\ db'[resp'[r].body.id].orders = PyList(<<>>)]_vars

C8_Witness ==
  \E r \in Reqs :
    /\ pc[r] = "done" /\ req[r].op = "add" /\ req[r].body.orders = PyNone
    /\ resp[r].status = 200
    /\ resp[r].body.orders = PyList(<<>>)
    /\ db[resp[r].body.id].orders = PyList(<<>>)

\* C9: a negative index is never answered with not-found by edit, delete or
\* patch on an existing customer with n orders: for -n <= i < 0 the request
\* changes the element at position n+i of the sequence it read, writes that
\* and succeeds; for i < -n it ends in an unhandled failure (500) without a
\* write.
C9_NegativeIndexWrapsOrFails ==
  [][\A r \in Reqs :
       /\ (/\ Starts(r)
           /\ req'[r].op \in IndexedOps
           /\ req'[r].cid \in DOMAIN db
           /\ req'[r].index < 0) =>
            LET s == Stored(req'[r].cid)
                n == Len(s)
                i == req'[r].index
            IN IF 0 - n <= i
                 THEN /\ pc'[r] = "found"
                      /\ customer'[r].orders.items = Expected(req'[r], s, n + i + 1)
                 ELSE /\ pc'[r] = "done"
                      /\ resp'[r].status = 500
                      /\ db' = db
       /\ (Writes(r) /\ req[r].op \in IndexedOps /\ req[r].index < 0) =>
            /\ db'[req[r].cid].orders = customer[r].orders
            /\ resp'[r].status = 200]_vars

C9_Witness ==
  \E r \in Reqs :
    /\ pc[r] = "done" /\ req[r].op \in IndexedOps /\ resp[r].status = 200
    /\ req[r].index < 0
    /\ ~dirty[r]
    /\ Len(read[r].items) >= 2
    /\ Stored(req[r].cid) =
         Expected(req[r], read[r].items, Len(read[r].items) + req[r].index + 1)
    /\ Stored(req[r].cid) # read[r].items

\* C10: every step keeps every stored customer, with its _id, name, email,
\* phone and address as they were; a book, edit, delete or patch write changes
\* no document other than its target's; no step of a request other than a
\* write changes a stored document.
C10_WritesOnlyTargetOrders ==
  [][/\ DOMAIN db \subseteq DOMAIN db'
     /\ \A c \in DOMAIN db :
          /\ db'[c]._id = c /\ db[c]._id = c
          /\ db'[c].name = db[c].name
          /\ db'[c].email = db[c].email
          /\ db'[c].phone = db[c].phone
          /\ db'[c].address = db[c].address
          /\ db'[c] # db[c] => \E r \in Reqs : Writes(r) /\ req[r].cid = c]_vars

C10_Witness ==
  \E r \in Reqs, c \in DOMAIN db :
    /\ pc[r] = "done" /\ req[r].op \in {"book", "edit", "delete", "patch"}
    /\ resp[r].status = 200
    /\ c # req[r].cid
    /\ Stored(req[r].cid) # read[r].items
    /\ Stored(c) # Stored(req[r].cid)
====
